---- MODULE Spec2Model ----
(***************************************************************************)
(* A model of the dms-rag retrieval-and-answer pipeline:                   *)
(*   database.py     DatabaseManager.setup_collection / _populate_collection*)
(*                   / perform_query                                       *)
(*   chatbot.py      Chatbot.__init__ / _setup_llm / ask                   *)
(*   text_cleaner.py TextCleaner.__init__ / clean_text / clean_file        *)
(*   doc_chunker.py  DocumentChunker.chunk_folder                          *)
(* Each script is a process of its own, so each has a specification of its *)
(* own (SpecBuild, SpecChat, SpecChunk, SpecClean) over the shared         *)
(* variables; SpecRace is two runs of database.py side by side.            *)
(***************************************************************************)
EXTENDS Integers, Sequences, FiniteSets, TLC

VARIABLES
    \* ---- database.py ----
    embeddings_file,  \* the .npy source: whether it exists, and its rows
    metadata_file,    \* the .json source: whether it exists, and its chunk dicts
    store,            \* the persistent client's one named collection
    uuid_next,        \* uuid.uuid4: number of tokens handed out so far
    builds,           \* number of setup_collection calls started
    builder,          \* per build process: position and locals
    \* ---- chatbot.py, text_cleaner.py, database.py perform_query ----
    env,              \* the environment values the constructors read
    component,        \* the object the process constructs
    trace,            \* external operations the constructor attempted, in order
    ask,              \* the current Chatbot.ask invocation
    asks,             \* number of ask / perform_query calls started
    pq,               \* the last DatabaseManager.perform_query call
    \* ---- doc_chunker.py ----
    folder,           \* the input folder: its files, in glob order
    chunker,          \* the DocumentChunker and its chunk_folder call
    \* ---- text_cleaner.py clean_file ----
    input_file,       \* the file clean_file reads: whether it exists, its text
    output_file,      \* the file clean_file writes: whether it exists, its text
    cleaning,         \* the last TextCleaner.clean_file call
    cleans            \* number of clean_file calls made

build_vars == <<embeddings_file, metadata_file, store, uuid_next, builds, builder>>

chat_vars == <<env, component, trace, ask, asks, pq>>

chunk_vars == <<folder, chunker>>

clean_vars == <<input_file, output_file, cleaning, cleans>>

vars == <<build_vars, chat_vars, chunk_vars, clean_vars>>

(***************************************************************************)
(* Bounds.                                                                 *)
(***************************************************************************)
MaxLen == 201        \* longest source array (three batches)
MaxBuilds == 3       \* setup_collection calls in one behaviour
NumBuilders == 2     \* build processes that exist
MaxDocs == 2         \* records of the collection a query runs against
MaxK == 3            \* largest n_results asked for
MaxAsks == 2         \* ask / perform_query calls in one behaviour
MaxFiles == 3        \* files in the folder chunk_folder reads
MaxDocLen == 5       \* characters in one file's text
NumQueries == 1      \* distinct query texts
MaxCleans == 2       \* clean_file calls in one behaviour

batch_size == 100

Min(a, b) == IF a < b THEN a ELSE b

Builders == 1..NumBuilders

\* Source array lengths that are tried: none, one, a full batch, one more
\* than a batch, and the longest.
Lens == {0, 1, batch_size, batch_size + 1, MaxLen}

(***************************************************************************)
(* The source files.  Row i of the embeddings array is the vector token    *)
(* <<"v", i>>; chunk dict i has a content and a source_file of its own.    *)
(***************************************************************************)
EmbeddingsArray(n) == [i \in 1..n |-> <<"v", i>>]

MetadataArray(n) ==
    [i \in 1..n |-> [source_file       |-> <<"f", (i + 1) \div 2>>,
                     chunk_sequence_id |-> 2 - (i % 2),
                     content           |-> <<"c", i>>]]

\* A slice whose end is taken inclusive.
Slice_inclusive(s, i, j) ==
    IF i >= Len(s) THEN << >> ELSE SubSeq(s, i + 1, Min(j + 1, Len(s)))

\* Python's s[i:j] for 0 <= i <= j (0-based, end-exclusive, clipped to len(s)).
Slice(s, i, j) ==
    IF i >= Len(s) THEN << >> ELSE SubSeq(s, i + 1, Min(j, Len(s)))

\* Ids numbered from the position in the list, the same in every build.
uuid4_by_position(base, n) == [j \in 1..n |-> <<"uuid", j>>]

\* uuid.uuid4(): n fresh tokens, none handed out before.
uuid4(base, n) == [j \in 1..n |-> <<"uuid", base + j>>]

\* A test that takes every collection for an empty one.
NeedsPopulate_always(cnt) == cnt >= 0

\* collection.count() == 0
NeedsPopulate(cnt) == cnt = 0

\* collection.count() on a handle
Count(st) == Len(st.records)

\* chromadb's Collection.add checks its arguments before it writes: the four
\* lists are non-empty and of one length.
AddValid(ids, embs, docs, metas) ==
    /\ Len(ids) > 0
    /\ Len(embs) = Len(ids)
    /\ Len(docs) = Len(ids)
    /\ Len(metas) = Len(ids)

\* The records one add call appends, zipped positionally.
AddedRecords(ids, embs, docs, metas) ==
    [j \in 1..Len(ids) |-> [id        |-> ids[j],
                            embedding |-> embs[j],
                            document  |-> docs[j],
                            metadata  |-> metas[j]]]

Missing == [exists |-> FALSE, data |-> << >>]
File(d) == [exists |-> TRUE, data |-> d]

(***************************************************************************)
(* chatbot.py, text_cleaner.py and perform_query: values.                  *)
(***************************************************************************)
\* Pieces of text are tokens <<tag, n>>; a string is a sequence of tokens.
T(tag, n) == <<tag, n>>

Providers == {"google", "openrouter", "ollama", "other"}

\* provider.upper()
Upper(provider) ==
    CASE provider = "google" -> "GOOGLE"
      [] provider = "openrouter" -> "OPENROUTER"
      [] provider = "ollama" -> "OLLAMA"
      [] OTHER -> "OTHER"

\* What os.getenv gives for a credential: unset (None), empty, or a key.
KeyValues == {"unset", "", "key"}

\* `not value` for a value read from the environment.
Falsy(v) == v \in {"unset", ""}

\* MODEL_TEMPERATURE as found in the environment.
TemperatureValues == {"unset", "0.7", "warm"}

\* float(os.getenv("MODEL_TEMPERATURE", 0.1)), in tenths; -1 stands for the
\* ValueError float raises on text that is no number.
ParseTemperature(v) ==
    CASE v = "unset" -> 1
      [] v = "0.7" -> 7
      [] OTHER -> -1

\* llm_model_name or os.getenv(<per provider>, <default>)
DefaultModel(provider) ==
    CASE provider = "google" -> "gemini-1.5-flash-latest"
      [] provider = "openrouter" -> "meta-llama/llama-3-8b-instruct"
      [] OTHER -> "gemma:2b"

ModelName(given, provider) == IF given # "" THEN given ELSE DefaultModel(provider)

NoLLM == [ok |-> FALSE, error |-> "none", ops |-> << >>, temperature |-> 0,
          llm_model_name |-> "", base_url |-> ""]

\* Chatbot._setup_llm (chatbot.py 57-83): the temperature is parsed, then the
\* provider's credential is checked before its client is made.
setup_llm(provider, given_name, e) ==
    IF ParseTemperature(e.MODEL_TEMPERATURE) < 0
    THEN [NoLLM EXCEPT !.error = "ValueError:MODEL_TEMPERATURE"]
    ELSE LET t == ParseTemperature(e.MODEL_TEMPERATURE) IN
    CASE provider = "google" ->
           IF Falsy(e.GOOGLE_API_KEY)
           THEN [NoLLM EXCEPT !.error = "ValueError:GOOGLE_API_KEY", !.temperature = t]
           ELSE [ok |-> TRUE, error |-> "none",
                 ops |-> <<"genai.configure", "genai.GenerativeModel">>,
                 temperature |-> t,
                 llm_model_name |-> ModelName(given_name, provider),
                 base_url |-> "google"]
      [] provider = "openrouter" ->
           IF Falsy(e.OPENROUTER_API_KEY)
           THEN [NoLLM EXCEPT !.error = "ValueError:OPENROUTER_API_KEY", !.temperature = t]
           ELSE [ok |-> TRUE, error |-> "none",
                 ops |-> <<"openai.OpenAI">>,
                 temperature |-> t,
                 llm_model_name |-> ModelName(given_name, provider),
                 base_url |-> "https://openrouter.ai/api/v1"]
      [] provider = "ollama" ->
           [ok |-> TRUE, error |-> "none",
            ops |-> <<"openai.OpenAI">>,
            temperature |-> t,
            llm_model_name |-> ModelName(given_name, provider),
            base_url |-> "http://localhost:11434/v1"]
      [] OTHER -> [NoLLM EXCEPT !.error = "ValueError:provider", !.temperature = t]

\* TextCleaner.__init__ (text_cleaner.py 37-74): the same checks, on the
\* model name and temperature the caller passes.
cleaner_llm(provider, model_name, temperature, e) ==
    CASE provider = "google" ->
           IF Falsy(e.GOOGLE_API_KEY)
           THEN [NoLLM EXCEPT !.error = "ValueError:GOOGLE_API_KEY",
                              !.temperature = temperature]
           ELSE [ok |-> TRUE, error |-> "none",
                 ops |-> <<"genai.configure", "genai.GenerativeModel">>,
                 temperature |-> temperature, llm_model_name |-> model_name,
                 base_url |-> "google"]
      [] provider = "openrouter" ->
           IF Falsy(e.OPENROUTER_API_KEY)
           THEN [NoLLM EXCEPT !.error = "ValueError:OPENROUTER_API_KEY",
                              !.temperature = temperature]
           ELSE [ok |-> TRUE, error |-> "none", ops |-> <<"openai.OpenAI">>,
                 temperature |-> temperature, llm_model_name |-> model_name,
                 base_url |-> "https://openrouter.ai/api/v1"]
      [] provider = "ollama" ->
           [ok |-> TRUE, error |-> "none", ops |-> <<"openai.OpenAI">>,
            temperature |-> temperature, llm_model_name |-> model_name,
            base_url |-> "http://localhost:11434/v1"]
      [] OTHER -> [NoLLM EXCEPT !.error = "ValueError:provider",
                                !.temperature = temperature]

\* The operations Chatbot.__init__ performs before _setup_llm (46-53).
ChatbotOpenOps ==
    <<"SentenceTransformer", "chromadb.PersistentClient",
      "get_or_create_collection", "collection.count">>

NoComponent ==
    [kind |-> "none", state |-> "none", error |-> "none", provider |-> "",
     temperature |-> 0, llm_model_name |-> "", base_url |-> ""]

Component(kind, provider, llm) ==
    [kind |-> kind, state |-> IF llm.ok THEN "ready" ELSE "failed",
     error |-> llm.error, provider |-> provider,
     temperature |-> llm.temperature, llm_model_name |-> llm.llm_model_name,
     base_url |-> llm.base_url]

\* The orders in which a query vector can rank n records by distance.
Rankings(n) ==
    {r \in [1..n -> 1..n] : \A a, b \in 1..n : a # b => r[a] # r[b]}

\* collection.query(query_embeddings=[v], n_results=k): the k nearest records
\* by distance, all of them when there are fewer than k, none for an empty
\* collection; one inner list per query vector.
ChromaQuery(records, ranking, k) ==
    LET m == Min(k, Len(records)) IN
    [documents |-> << [j \in 1..m |-> records[ranking[j]].document] >>,
     metadatas |-> << [j \in 1..m |-> records[ranking[j]].metadata] >>,
     distances |-> << [j \in 1..m |-> j] >>]

\* results['documents'] taken without the index of the query vector.
RetrievedDocs_outer(results) == results.documents

\* retrieved_docs = results['documents'][0]
RetrievedDocs(results) == results.documents[1]

\* The bullet lines joined last document first.
JoinLines_reversed(docs) ==
    LET m == Len(docs) IN
    [p \in 1..(IF m = 0 THEN 0 ELSE 3 * m - 1) |->
        IF p % 3 = 1 THEN T("- ", 0)
        ELSE IF p % 3 = 2 THEN docs[m + 1 - (p + 1) \div 3]
        ELSE T("newline", 0)]

RECURSIVE JoinLines(_)
\* "\n".join(f"- {doc}" for doc in retrieved_docs)
JoinLines(docs) ==
    IF Len(docs) = 0 THEN << >>
    ELSE IF Len(docs) = 1 THEN <<T("- ", 0), docs[1]>>
    ELSE <<T("- ", 0), docs[1], T("newline", 0)>> \o JoinLines(Tail(docs))

\* PROMPT_TEMPLATE.format(context=context, query=query)
Prompt(context, query) ==
    <<T("template: instructions, context block opens", 0)>> \o context
        \o <<T("template: context block closes, question", 0), query,
             T("template: end", 0)>>

SystemInstruction == T("Anda adalah asisten Q&A yang menjawab berdasarkan konteks.", 0)

RECURSIVE LStrip(_)
LStrip(t) == IF Len(t) > 0 /\ Head(t) = " " THEN LStrip(Tail(t)) ELSE t

RECURSIVE RStrip(_)
RStrip(t) ==
    IF Len(t) > 0 /\ t[Len(t)] = " " THEN RStrip(SubSeq(t, 1, Len(t) - 1)) ELSE t

\* str.strip() on a text of characters
Strip(t) == RStrip(LStrip(t))

\* Texts a provider can answer with.
ProviderTexts == {<<" ">>, <<"a">>, <<" ", "a", "b", " ">>}

\* What a provider call can do: answer, raise in the call, or answer with a
\* response whose text cannot be read (response.text raises, content is None).
ProviderOutcomes == {"ok", "call_raises", "read_raises"}

ExceptionOf(outcome, provider) ==
    CASE outcome = "call_raises" -> "APIConnectionError"
      [] outcome = "read_raises" ->
           IF provider = "google" THEN "ValueError" ELSE "AttributeError"
      [] OTHER -> "none"

\* A handler that catches the client library's errors only.
ExceptException_api_only(e) == e = "APIConnectionError"

\* except Exception as e (chatbot.py 116)
ExceptException(e) == TRUE

NoAnswer == [kind |-> "none", provider |-> "", cause |-> "none", text |-> << >>]

IdleAsk ==
    [stage |-> "idle", pc |-> "idle", query_text |-> T("q", 0), k_results |-> 0,
     count_at_query |-> 0, returned_order |-> << >>,
     retrieved_docs |-> << >>, context_str |-> << >>,
     prompt |-> << >>, calls |-> << >>, request |-> << >>, fault |-> "none",
     outcome |-> "none",
     answer |-> NoAnswer, returned |-> "none", raised_in |-> "none"]

\* A failure in _retrieve_context unwinds through ask, which has no handler,
\* so ask goes on with an empty context instead.
OnRetrieveError_degrade(a, cause) ==
    [a EXCEPT !.stage = "Generating", !.pc = "generate", !.fault = cause]

\* A failure in _retrieve_context unwinds through ask, which has no handler
\* (chatbot.py 119-123).
OnRetrieveError(a, cause) ==
    [a EXCEPT !.stage = "raised", !.pc = "end", !.fault = cause,
              !.raised_in = "Retrieving"]

IdleQuery ==
    [result |-> "none", fault |-> "none", n_results |-> 0, count_at_query |-> 0,
     none_found |-> FALSE, printed |-> << >>]

(***************************************************************************)
(* text_cleaner.py clean_text / clean_file: values.                        *)
(***************************************************************************)
\* CLEANING_PROMPT_TEMPLATE.format(raw_text=raw_text) (19-35, 78).
CleaningPrompt(raw_text) ==
    <<T("cleaning template: role and rules, raw text opens", 0)>> \o raw_text
        \o <<T("cleaning template: raw text closes", 0)>>

\* The system message of clean_text (89).
CleanerSystemInstruction == T("system: OCR cleaner for legal documents", 0)

\* What clean_text returns: a string, or None.
None == [none |-> TRUE, text |-> << >>]

Str(text) == [none |-> FALSE, text |-> text]

\* if cleaned_content: (114) is false for None and for the empty string.
Truthy(v) == ~v.none /\ v.text # << >>

\* A handler that hands the error's message back as the text.
OnCleanError_message(e) == Str(<<"e", "r", "r">>)

\* except Exception as e: print(...); return None (96-98).
OnCleanError(e) == None

\* The raw texts and earlier outputs that are tried.
RawTexts == {<<T("raw", 1)>>}

OldOutputs == {<<"o">>}

IdleCleaning ==
    [result |-> "none", input_found |-> FALSE, request |-> << >>,
     outcome |-> "none", provider_text |-> << >>, cleaned |-> None,
     wrote |-> FALSE, output_before |-> Missing]

CleanIdle ==
    /\ input_file = Missing
    /\ output_file = Missing
    /\ cleaning = IdleCleaning
    /\ cleans = 0

ChatIdle ==
    /\ env = [GOOGLE_API_KEY |-> "unset", OPENROUTER_API_KEY |-> "unset",
              MODEL_TEMPERATURE |-> "unset"]
    /\ component = NoComponent
    /\ trace = << >>
    /\ ask = IdleAsk
    /\ asks = 0
    /\ pq = IdleQuery

(***************************************************************************)
(* doc_chunker.py: values.                                                 *)
(***************************************************************************)
\* A file's text of n characters; character j is the token <<"ch", j>>.
Text(n) == [j \in 1..n |-> T("ch", j)]

\* The files a folder can hold: *.txt files with texts of every length up to
\* MaxDocLen, and one file that is not a *.txt.
FileKinds ==
    {[is_txt |-> TRUE, text |-> Text(n)] : n \in 0..MaxDocLen}
        \cup {[is_txt |-> FALSE, text |-> Text(1)]}

\* (chunk_size, chunk_overlap) pairs the chunker is constructed with.
ChunkParams == {<<2, 0>>, <<3, 1>>}

RECURSIVE Windows(_, _, _, _)
\* The hard character-count split: windows of `size` characters, each
\* starting `size - overlap` after the one before, up to the end of the text.
Windows(text, from, size, overlap) ==
    IF from > Len(text) THEN << >>
    ELSE IF from + size - 1 >= Len(text)
    THEN << SubSeq(text, from, Len(text)) >>
    ELSE << SubSeq(text, from, from + size - 1) >>
            \o Windows(text, from + size - overlap, size, overlap)

\* text_splitter.split_text(document_content) for a text without separators:
\* no chunk for an empty text.
split_text(text, size, overlap) == Windows(text, 1, size, overlap)

\* Numbering that keeps enumerate's 0-based index.
SequenceId_zero_based(i) == i

\* "chunk_sequence_id": i + 1 for enumerate's 0-based index i
SequenceId(i) == i + 1

\* txt_files = list(input_folder_path.glob("*.txt"))
RECURSIVE GlobTxt(_)
GlobTxt(files) ==
    IF files = << >> THEN << >>
    ELSE IF Head(files).is_txt THEN <<Head(files)>> \o GlobTxt(Tail(files))
    ELSE GlobTxt(Tail(files))

IdleChunker ==
    [pc |-> "none", chunk_size |-> 0, chunk_overlap |-> 0, txt_files |-> << >>,
     idx |-> 0, all_chunks |-> << >>, result |-> "none"]

ChunkIdle ==
    /\ folder = << >>
    /\ chunker = IdleChunker

IdleBuilder ==
    [pc |-> "idle", force_recreate |-> FALSE, handle |-> 0, i |-> 0,
     documents_to_add |-> << >>, metadatas_to_add |-> << >>,
     ids_to_add |-> << >>, embeddings |-> << >>,
     populated |-> FALSE, entry_count |-> 0, entry_exists |-> FALSE,
     entry_gen |-> 0, entry_uuid |-> 0, start_count |-> 0, adds |-> 0, batches |-> << >>,
     result |-> "none", error |-> "none"]

InitBuild ==
    /\ embeddings_file \in {Missing} \cup {File(EmbeddingsArray(n)) : n \in Lens}
    /\ metadata_file \in {Missing} \cup {File(MetadataArray(n)) : n \in Lens}
    /\ store = [exists |-> FALSE, gen |-> 0, records |-> << >>]
    /\ uuid_next = 0
    /\ builds = 0
    /\ builder = [b \in Builders |-> IdleBuilder]
    /\ ChatIdle
    /\ CleanIdle
    /\ ChunkIdle

\* The guard of line 45: force_recreate and the name among the listed ones.
ShouldDelete_always(force_recreate, listed) == listed

ShouldDelete_never(force_recreate, listed) == FALSE

ShouldDelete(force_recreate, listed) == force_recreate /\ listed

\* The loop of 81-88 has no try: an exception of collection.add leaves the
\* loop, _populate_collection and setup_collection at once.
OnAddError_continue(bd, err) ==
    [bd EXCEPT !.i = @ + batch_size]

OnAddError(bd, err) ==
    [bd EXCEPT !.pc = "done", !.result = "raised", !.error = err]

\* The design assumes a single writer: a build starts when no other runs.
SingleWriter == \A o \in Builders : builder[o].pc = "idle"

\* setup_collection is entered (database.py 30-43).
setup_collection(b, force) ==
    /\ builder[b].pc = "idle"
    /\ SingleWriter
    /\ builds < MaxBuilds
    /\ builds' = builds + 1
    /\ builder' = [builder EXCEPT ![b] =
                     [IdleBuilder EXCEPT !.pc = "delete", !.force_recreate = force,
                                         !.entry_count = Count(store),
                                         !.entry_exists = store.exists,
                                         !.entry_gen = store.gen,
                                         !.entry_uuid = uuid_next]]
    /\ UNCHANGED <<chat_vars, chunk_vars, clean_vars, embeddings_file, metadata_file, store, uuid_next>>

\* if force_recreate and the name is listed: delete_collection (45-47).
delete_collection(b) ==
    /\ builder[b].pc = "delete"
    /\ store' = IF ShouldDelete(builder[b].force_recreate, store.exists)
                THEN [store EXCEPT !.exists = FALSE, !.records = << >>]
                ELSE store
    /\ builder' = [builder EXCEPT ![b].pc = "open"]
    /\ UNCHANGED <<chat_vars, chunk_vars, clean_vars, embeddings_file, metadata_file, uuid_next, builds>>

\* collection = client.get_or_create_collection(name) (49).
get_or_create_collection(b) ==
    /\ builder[b].pc = "open"
    /\ store' = IF store.exists THEN store
                ELSE [exists |-> TRUE, gen |-> store.gen + 1, records |-> << >>]
    /\ builder' = [builder EXCEPT ![b].pc = "count", ![b].handle = store'.gen]
    /\ UNCHANGED <<chat_vars, chunk_vars, clean_vars, embeddings_file, metadata_file, uuid_next, builds>>

\* if collection.count() == 0: populate, else skip and return (51-57).
count_check(b) ==
    /\ builder[b].pc = "count"
    /\ LET cnt == Count(store) IN
       builder' = [builder EXCEPT
                     ![b].start_count = cnt,
                     ![b].populated = NeedsPopulate(cnt),
                     ![b].pc = IF NeedsPopulate(cnt) THEN "load" ELSE "done",
                     ![b].result = IF NeedsPopulate(cnt) THEN "none" ELSE "returned"]
    /\ UNCHANGED <<chat_vars, chunk_vars, clean_vars, embeddings_file, metadata_file, store, uuid_next, builds>>

\* _populate_collection up to the loop (59-77): a missing source prints and
\* returns, and setup_collection then returns the handle; otherwise the
\* arrays are loaded and one id is drawn per metadata entry.
populate_load(b) ==
    /\ builder[b].pc = "load"
    /\ IF ~embeddings_file.exists \/ ~metadata_file.exists
       THEN /\ builder' = [builder EXCEPT ![b].pc = "done", ![b].result = "returned"]
            /\ UNCHANGED uuid_next
       ELSE LET metadata == metadata_file.data
                n == Len(metadata)
            IN /\ builder' = [builder EXCEPT
                    ![b].embeddings = embeddings_file.data,
                    ![b].documents_to_add = [j \in 1..n |-> metadata[j].content],
                    ![b].metadatas_to_add =
                        [j \in 1..n |-> [source |-> metadata[j].source_file]],
                    ![b].ids_to_add = uuid4(uuid_next, n),
                    ![b].i = 0,
                    ![b].pc = "adding"]
               /\ uuid_next' = uuid_next + n
    /\ UNCHANGED <<chat_vars, chunk_vars, clean_vars, embeddings_file, metadata_file, store, builds>>

\* One turn of the loop (81-88): collection.add of the slices [i:i+batch_size].
\* The add raises when chromadb rejects the arguments, when the handle's
\* collection is gone, or when the store fails (fault).
add_batch(b, fault) ==
    /\ builder[b].pc = "adding"
    /\ builder[b].i < Len(builder[b].documents_to_add)
    /\ LET i == builder[b].i
           embs == Slice(builder[b].embeddings, i, i + batch_size)
           docs == Slice(builder[b].documents_to_add, i, i + batch_size)
           metas == Slice(builder[b].metadatas_to_add, i, i + batch_size)
           ids == Slice(builder[b].ids_to_add, i, i + batch_size)
           call(ok) == [builder[b] EXCEPT !.batches =
                           Append(@, [start |-> i, n |-> Len(ids), ok |-> ok])]
       IN IF ~AddValid(ids, embs, docs, metas)
          THEN /\ builder' = [builder EXCEPT ![b] =
                                OnAddError(call(FALSE), "ValueError")]
               /\ UNCHANGED store
          ELSE IF fault \/ ~store.exists \/ store.gen # builder[b].handle
          THEN /\ builder' = [builder EXCEPT ![b] =
                                OnAddError(call(FALSE), "StoreError")]
               /\ UNCHANGED store
          ELSE /\ store' = [store EXCEPT !.records =
                              @ \o AddedRecords(ids, embs, docs, metas)]
               /\ builder' = [builder EXCEPT ![b] =
                                [call(TRUE) EXCEPT !.i = i + batch_size,
                                                   !.adds = @ + 1]]
    /\ UNCHANGED <<chat_vars, chunk_vars, clean_vars, embeddings_file, metadata_file, uuid_next, builds>>

\* The loop is exhausted: _populate_collection and setup_collection return (90, 57).
populate_return(b) ==
    /\ builder[b].pc = "adding"
    /\ builder[b].i >= Len(builder[b].documents_to_add)
    /\ builder' = [builder EXCEPT ![b].pc = "done", ![b].result = "returned"]
    /\ UNCHANGED <<chat_vars, chunk_vars, clean_vars, embeddings_file, metadata_file, store, uuid_next, builds>>

\* The script's process ends (main, 139-154).
build_exit(b) ==
    /\ builder[b].pc = "done"
    /\ builder' = [builder EXCEPT ![b] = IdleBuilder]
    /\ UNCHANGED <<chat_vars, chunk_vars, clean_vars, embeddings_file, metadata_file, store, uuid_next, builds>>

NextBuild ==
    \E b \in Builders :
        \/ \E force \in BOOLEAN : setup_collection(b, force)
        \/ delete_collection(b)
        \/ get_or_create_collection(b)
        \/ count_check(b)
        \/ populate_load(b)
        \/ \E fault \in BOOLEAN : add_batch(b, fault)
        \/ populate_return(b)
        \/ build_exit(b)

SpecBuild == InitBuild /\ [][NextBuild]_vars

(***************************************************************************)
(* Two runs of database.py against one collection name at the same time.   *)
(* Nothing in setup_collection takes a lock or checks for another writer,  *)
(* so the steps of the two runs interleave freely.                         *)
(***************************************************************************)
\* The two build processes that run side by side.
Racers == {1, 2}

RaceLens == {1, batch_size + 1}

InitRace ==
    /\ \E n \in RaceLens :
        /\ embeddings_file = File(EmbeddingsArray(n))
        /\ metadata_file = File(MetadataArray(n))
    /\ store = [exists |-> FALSE, gen |-> 0, records |-> << >>]
    /\ uuid_next = 0
    /\ builds = 0
    /\ builder = [b \in Builders |-> IdleBuilder]
    /\ ChatIdle
    /\ CleanIdle
    /\ ChunkIdle

\* setup_collection is entered (database.py 30-43) whatever other runs do.
setup_collection_concurrent(b, force) ==
    /\ builder[b].pc = "idle"
    /\ builds < MaxBuilds
    /\ builds' = builds + 1
    /\ builder' = [builder EXCEPT ![b] =
                     [IdleBuilder EXCEPT !.pc = "delete", !.force_recreate = force,
                                         !.entry_count = Count(store),
                                         !.entry_exists = store.exists,
                                         !.entry_gen = store.gen,
                                         !.entry_uuid = uuid_next]]
    /\ UNCHANGED <<chat_vars, chunk_vars, clean_vars, embeddings_file, metadata_file, store, uuid_next>>

NextRace ==
    \E b \in Racers :
        \/ \E force \in BOOLEAN : setup_collection_concurrent(b, force)
        \/ delete_collection(b)
        \/ get_or_create_collection(b)
        \/ count_check(b)
        \/ populate_load(b)
        \/ \E fault \in BOOLEAN : add_batch(b, fault)
        \/ populate_return(b)

SpecRace == InitRace /\ [][NextRace]_vars

(***************************************************************************)
(* chatbot.py, text_cleaner.py and perform_query: operations.              *)
(***************************************************************************)
\* A collection of n records as a finished build leaves it.
Collection(n) ==
    LET metadata == MetadataArray(n) IN
    [exists |-> TRUE, gen |-> 1,
     records |-> AddedRecords(uuid4(0, n), EmbeddingsArray(n),
                              [j \in 1..n |-> metadata[j].content],
                              [j \in 1..n |-> [source |-> metadata[j].source_file]])]

InitChat ==
    /\ env \in [GOOGLE_API_KEY : KeyValues, OPENROUTER_API_KEY : KeyValues,
                MODEL_TEMPERATURE : TemperatureValues]
    /\ component = NoComponent
    /\ trace = << >>
    /\ ask = IdleAsk
    /\ asks = 0
    /\ pq = IdleQuery
    /\ store \in {[exists |-> FALSE, gen |-> 0, records |-> << >>]}
                    \cup {Collection(n) : n \in 0..MaxDocs}
    /\ embeddings_file = Missing
    /\ metadata_file = Missing
    /\ uuid_next = Len(store.records)
    /\ builds = 0
    /\ builder = [b \in Builders |-> IdleBuilder]
    /\ ChunkIdle
    /\ CleanIdle

\* Chatbot.__init__ (chatbot.py 33-55): the embedding model is loaded, the
\* store is opened and the collection fetched or created and counted, and
\* only then _setup_llm runs.
Chatbot_init(provider, given_name, load_fault) ==
    /\ component.kind = "none"
    /\ IF load_fault
       THEN /\ component' = [NoComponent EXCEPT !.kind = "Chatbot",
                                !.state = "failed",
                                !.error = "CapabilityUnavailable",
                                !.provider = provider]
            /\ trace' = <<"SentenceTransformer">>
            /\ UNCHANGED store
       ELSE LET llm == setup_llm(provider, given_name, env) IN
            /\ store' = IF store.exists THEN store
                        ELSE [exists |-> TRUE, gen |-> store.gen + 1,
                              records |-> << >>]
            /\ trace' = ChatbotOpenOps \o llm.ops
            /\ component' = Component("Chatbot", provider, llm)
    /\ UNCHANGED <<env, ask, asks, pq, embeddings_file, metadata_file,
                   uuid_next, builds, builder, chunk_vars, clean_vars>>

\* TextCleaner.__init__ (text_cleaner.py 37-74).
TextCleaner_init(provider, model_name, temperature) ==
    /\ component.kind = "none"
    /\ LET llm == cleaner_llm(provider, model_name, temperature, env) IN
       /\ trace' = llm.ops
       /\ component' = Component("TextCleaner", provider, llm)
    /\ UNCHANGED <<env, ask, asks, pq, build_vars, chunk_vars, clean_vars>>

\* DatabaseManager.__init__ (database.py 18-28).
DatabaseManager_init ==
    /\ component.kind = "none"
    /\ trace' = <<"chromadb.PersistentClient">>
    /\ component' = [NoComponent EXCEPT !.kind = "DatabaseManager",
                                        !.state = "ready"]
    /\ UNCHANGED <<env, ask, asks, pq, build_vars, chunk_vars, clean_vars>>

\* ask is called (chatbot.py 119-121): the Retrieving stage begins.
ask_begin(q, k) ==
    /\ component.kind = "Chatbot"
    /\ component.state = "ready"
    /\ ask.pc \in {"idle", "end"}
    /\ asks < MaxAsks
    /\ asks' = asks + 1
    /\ ask' = [IdleAsk EXCEPT !.stage = "Retrieving", !.pc = "encode",
                              !.query_text = T("q", q), !.k_results = k]
    /\ UNCHANGED <<env, component, trace, pq, build_vars, chunk_vars, clean_vars>>

\* query_embedding = self.embedding_model.encode(query_text) (88).
encode(fault) ==
    /\ ask.pc = "encode"
    /\ LET a == [ask EXCEPT !.calls = Append(@, "embedding_model.encode")] IN
       ask' = IF fault THEN OnRetrieveError(a, "encode")
              ELSE [a EXCEPT !.pc = "query"]
    /\ UNCHANGED <<env, component, trace, asks, pq, build_vars, chunk_vars, clean_vars>>

\* The index query and the building of the context (89-93).
query(fault, ranking) ==
    /\ ask.pc = "query"
    /\ LET a == [ask EXCEPT !.calls = Append(@, "collection.query")]
           results == ChromaQuery(store.records, ranking, ask.k_results)
           retrieved_docs == RetrievedDocs(results)
       IN ask' = IF fault THEN OnRetrieveError(a, "query")
                 ELSE [a EXCEPT !.count_at_query = Len(store.records),
                                !.returned_order =
                                    SubSeq(ranking, 1, Len(results.distances[1])),
                                !.retrieved_docs = retrieved_docs,
                                !.context_str = JoinLines(retrieved_docs),
                                !.stage = "Generating", !.pc = "generate"]
    /\ UNCHANGED <<env, component, trace, asks, pq, build_vars, chunk_vars, clean_vars>>

\* _generate_answer calls the client once in its try; the handler returns a
\* message and calls nothing again (100-117).
ProviderCall_retry(calls, op) == calls \o <<op, op>>

ProviderCall(calls, op) == Append(calls, op)

\* The request _generate_answer sends for each provider (101-113).
GoogleRequest(prompt) ==
    [op |-> "generate_content", model |-> component.llm_model_name,
     messages |-> <<[role |-> "prompt", content |-> prompt]>>,
     temperature |-> -1]

ChatRequest(prompt) ==
    [op |-> "chat.completions.create", model |-> component.llm_model_name,
     messages |-> <<[role |-> "system", content |-> <<SystemInstruction>>],
                    [role |-> "user", content |-> prompt]>>,
     temperature |-> component.temperature]

\* _generate_answer and ask's return (95-117, 122-123).
generate_answer(outcome, text) ==
    /\ ask.pc = "generate"
    /\ LET provider == component.provider
           prompt == Prompt(ask.context_str, ask.query_text)
           e == ExceptionOf(outcome, provider)
           a == [ask EXCEPT !.prompt = prompt, !.pc = "end"]
           called(req) == [a EXCEPT !.calls = ProviderCall(@, req.op),
                                    !.request = <<req>>,
                                    !.outcome = outcome]
           finish(c) ==
               IF outcome = "ok"
               THEN [c EXCEPT !.stage = "done", !.returned = "string",
                              !.answer = [NoAnswer EXCEPT !.kind = "text",
                                                          !.text = Strip(text)]]
               ELSE IF ExceptException(e)
               THEN [c EXCEPT !.stage = "done", !.returned = "string",
                              !.answer = [NoAnswer EXCEPT
                                            !.kind = "error_message",
                                            !.provider = Upper(provider),
                                            !.cause = e]]
               ELSE [c EXCEPT !.stage = "raised", !.raised_in = "Generating"]
       IN ask' = IF provider = "google" THEN finish(called(GoogleRequest(prompt)))
                 ELSE IF provider \in {"openrouter", "ollama"}
                 THEN finish(called(ChatRequest(prompt)))
                 ELSE [a EXCEPT !.stage = "done", !.returned = "None"]
    /\ UNCHANGED <<env, component, trace, asks, pq, build_vars, chunk_vars, clean_vars>>

\* DatabaseManager.perform_query (database.py 92-117): encode, query, and
\* print either "no results" or one entry per returned document.
perform_query(k, fault, ranking) ==
    /\ component.kind = "DatabaseManager"
    /\ component.state = "ready"
    /\ store.exists
    /\ asks < MaxAsks
    /\ asks' = asks + 1
    /\ LET results == ChromaQuery(store.records, ranking, k)
           docs == results.documents[1]
       IN pq' = IF fault # "none"
                THEN [IdleQuery EXCEPT !.result = "raised", !.fault = fault,
                                       !.n_results = k]
                ELSE [result |-> "returned", fault |-> "none", n_results |-> k,
                      count_at_query |-> Len(store.records),
                      none_found |-> (Len(docs) = 0),
                      printed |-> [i \in 1..Len(docs) |->
                                     [source |-> results.metadatas[1][i].source,
                                      distance |-> results.distances[1][i],
                                      doc |-> docs[i]]]]
    /\ UNCHANGED <<env, component, trace, ask, build_vars, chunk_vars, clean_vars>>

NextChat ==
    \/ \E provider \in Providers, given_name \in {"", "custom"},
          load_fault \in BOOLEAN :
            Chatbot_init(provider, given_name, load_fault)
    \/ \E provider \in Providers, temperature \in {0, 5} :
            TextCleaner_init(provider, "custom", temperature)
    \/ DatabaseManager_init
    \/ \E q \in 1..NumQueries, k \in 1..MaxK : ask_begin(q, k)
    \/ \E fault \in BOOLEAN : encode(fault)
    \/ \E fault \in BOOLEAN, ranking \in Rankings(Len(store.records)) :
            query(fault, ranking)
    \/ \E outcome \in ProviderOutcomes, text \in ProviderTexts :
            generate_answer(outcome, text)
    \/ \E k \in 1..MaxK, fault \in {"none", "encode", "query"},
          ranking \in Rankings(Len(store.records)) :
            perform_query(k, fault, ranking)

SpecChat == InitChat /\ [][NextChat]_vars

(***************************************************************************)
(* doc_chunker.py: operations.                                             *)
(***************************************************************************)
\* Folders of up to MaxFiles files; file j is named <<"file", j>>.
Folders ==
    UNION {[1..n -> FileKinds] : n \in 0..MaxFiles}

Named(files) ==
    [j \in 1..Len(files) |-> [name |-> T("file", j), is_txt |-> files[j].is_txt,
                              text |-> files[j].text]]

InitChunk ==
    /\ folder \in {Named(f) : f \in Folders}
    /\ chunker = IdleChunker
    /\ embeddings_file = Missing
    /\ metadata_file = Missing
    /\ store = [exists |-> FALSE, gen |-> 0, records |-> << >>]
    /\ uuid_next = 0
    /\ builds = 0
    /\ builder = [b \in Builders |-> IdleBuilder]
    /\ ChatIdle
    /\ CleanIdle

\* DocumentChunker.__init__ (doc_chunker.py 15-31).
DocumentChunker_init(chunk_size, chunk_overlap) ==
    /\ chunker.pc = "none"
    /\ chunker' = [IdleChunker EXCEPT !.pc = "ready", !.chunk_size = chunk_size,
                                      !.chunk_overlap = chunk_overlap]
    /\ UNCHANGED <<folder, build_vars, chat_vars, clean_vars>>

\* chunk_folder up to its loop (33-51): no *.txt file returns [] at once.
chunk_folder(input_folder) ==
    /\ chunker.pc = "ready"
    /\ LET txt_files == GlobTxt(input_folder) IN
       chunker' = IF txt_files = << >>
                  THEN [chunker EXCEPT !.pc = "done", !.result = "returned",
                                       !.all_chunks = << >>]
                  ELSE [chunker EXCEPT !.pc = "loop", !.txt_files = txt_files,
                                       !.idx = 1, !.all_chunks = << >>]
    /\ UNCHANGED <<folder, build_vars, chat_vars, clean_vars>>

\* One turn of the loop over txt_files (53-70): read, split, and append one
\* record per chunk.
chunk_file ==
    /\ chunker.pc = "loop"
    /\ chunker.idx <= Len(chunker.txt_files)
    /\ LET txt_path == chunker.txt_files[chunker.idx]
           document_content == txt_path.text
           chunks == split_text(document_content, chunker.chunk_size,
                                chunker.chunk_overlap)
           records == [p \in 1..Len(chunks) |->
                         [source_file       |-> txt_path.name,
                          chunk_sequence_id |-> SequenceId(p - 1),
                          content           |-> chunks[p]]]
       IN chunker' = [chunker EXCEPT !.all_chunks = @ \o records,
                                     !.idx = @ + 1]
    /\ UNCHANGED <<folder, build_vars, chat_vars, clean_vars>>

\* The loop is exhausted: return all_chunks (72-73).
chunk_return ==
    /\ chunker.pc = "loop"
    /\ chunker.idx > Len(chunker.txt_files)
    /\ chunker' = [chunker EXCEPT !.pc = "done", !.result = "returned"]
    /\ UNCHANGED <<folder, build_vars, chat_vars, clean_vars>>

NextChunk ==
    \/ \E params \in ChunkParams : DocumentChunker_init(params[1], params[2])
    \/ chunk_folder(folder)
    \/ chunk_file
    \/ chunk_return

SpecChunk == InitChunk /\ [][NextChunk]_vars

(***************************************************************************)
(* text_cleaner.py: clean_text and clean_file.                             *)
(***************************************************************************)
InitClean ==
    /\ env \in [GOOGLE_API_KEY : KeyValues, OPENROUTER_API_KEY : KeyValues,
                MODEL_TEMPERATURE : {"unset"}]
    /\ component = NoComponent
    /\ trace = << >>
    /\ ask = IdleAsk
    /\ asks = 0
    /\ pq = IdleQuery
    /\ input_file \in {Missing} \cup {File(t) : t \in RawTexts}
    /\ output_file \in {Missing} \cup {File(t) : t \in OldOutputs}
    /\ cleaning = IdleCleaning
    /\ cleans = 0
    /\ embeddings_file = Missing
    /\ metadata_file = Missing
    /\ store = [exists |-> FALSE, gen |-> 0, records |-> << >>]
    /\ uuid_next = 0
    /\ builds = 0
    /\ builder = [b \in Builders |-> IdleBuilder]
    /\ ChunkIdle

\* The request clean_text sends for each provider (81-94).
CleanerGoogleRequest(prompt) ==
    [op |-> "generate_content", model |-> component.llm_model_name,
     messages |-> <<[role |-> "prompt", content |-> prompt]>>,
     temperature |-> -1]

CleanerChatRequest(prompt) ==
    [op |-> "chat.completions.create", model |-> component.llm_model_name,
     messages |-> <<[role |-> "system", content |-> <<CleanerSystemInstruction>>],
                    [role |-> "user", content |-> prompt]>>,
     temperature |-> component.temperature]

\* TextCleaner.clean_text (76-98): the request made and the value returned.
clean_text(raw_text, outcome, text) ==
    LET provider == component.provider
        prompt == CleaningPrompt(raw_text)
        e == ExceptionOf(outcome, provider)
        returned == IF outcome = "ok" THEN Str(Strip(text)) ELSE OnCleanError(e)
    IN IF provider = "google"
       THEN [request |-> <<CleanerGoogleRequest(prompt)>>, value |-> returned]
       ELSE IF provider \in {"openrouter", "ollama"}
       THEN [request |-> <<CleanerChatRequest(prompt)>>, value |-> returned]
       ELSE [request |-> << >>, value |-> None]

\* TextCleaner.clean_file (100-122): a missing input returns False; otherwise
\* the text is read and cleaned, and written to the output only when the
\* cleaned text is a non-empty string.
clean_file(outcome, text) ==
    /\ component.kind = "TextCleaner"
    /\ component.state = "ready"
    /\ cleans < MaxCleans
    /\ cleans' = cleans + 1
    /\ IF ~input_file.exists
       THEN /\ cleaning' = [IdleCleaning EXCEPT !.result = "False",
                                                !.output_before = output_file]
            /\ UNCHANGED output_file
       ELSE LET r == clean_text(input_file.data, outcome, text)
                cleaned_content == r.value
                c == [IdleCleaning EXCEPT !.input_found = TRUE,
                                          !.request = r.request,
                                          !.outcome = outcome,
                                          !.provider_text = text,
                                          !.cleaned = cleaned_content,
                                          !.output_before = output_file]
            IN IF Truthy(cleaned_content)
               THEN /\ output_file' = File(cleaned_content.text)
                    /\ cleaning' = [c EXCEPT !.result = "True", !.wrote = TRUE]
               ELSE /\ UNCHANGED output_file
                    /\ cleaning' = [c EXCEPT !.result = "False"]
    /\ UNCHANGED <<input_file, chat_vars, build_vars, chunk_vars>>

NextClean ==
    \/ \E provider \in Providers, temperature \in {0, 5} :
            TextCleaner_init(provider, "custom", temperature)
    \/ \E outcome \in ProviderOutcomes, text \in ProviderTexts :
            clean_file(outcome, text)

SpecClean == InitClean /\ [][NextClean]_vars

(***************************************************************************)
(* Properties of the build path (database.py), checked under SpecBuild.    *)
(***************************************************************************)
SourcesPresent == embeddings_file.exists /\ metadata_file.exists

SourcesMatch ==
    SourcesPresent /\ Len(embeddings_file.data) = Len(metadata_file.data)

SourcesMismatch ==
    SourcesPresent /\ Len(embeddings_file.data) # Len(metadata_file.data)

NoBuildRunning == \A b \in Builders : builder[b].pc \in {"idle", "done"}

\* C1 (as claimed): in a build that populates from an embeddings array and a
\* metadata array of different lengths, nothing is ever added (no add call
\* succeeds, the count stays 0) and the build ends by raising an error.
C1_MismatchFatalBeforeInsert ==
    \A b \in Builders :
        (builder[b].populated /\ SourcesMismatch) =>
            /\ builder[b].adds = 0
            /\ Count(store) = 0
            /\ (builder[b].pc = "done" => builder[b].result = "raised")

\* C2 (as claimed): a build on an empty collection with a source file missing
\* does not return normally from setup_collection.
C2_MissingSourceHalts ==
    \A b \in Builders :
        (builder[b].pc = "done" /\ builder[b].populated /\ ~SourcesPresent) =>
            builder[b].result # "returned"

\* C3 (as claimed): a setup_collection call that finds the collection
\* non-empty on entry makes no add call and leaves the count as it was,
\* whatever force_recreate is.
C3_SecondBuildNoInsert ==
    \A b \in Builders :
        (builder[b].pc = "done" /\ builder[b].entry_count > 0) =>
            /\ builder[b].adds = 0
            /\ Count(store) = builder[b].entry_count

\* C3 (amended): a setup_collection call with force_recreate = False that
\* finds the collection non-empty on entry never enters population, makes no
\* add call, leaves the count as it was and returns normally.
C3_NoForceSecondBuildNoInsert ==
    \A b \in Builders :
        (builder[b].pc # "idle" /\ ~builder[b].force_recreate
            /\ builder[b].entry_count > 0) =>
            /\ builder[b].adds = 0
            /\ ~builder[b].populated
            /\ builder[b].pc \notin {"load", "adding"}
            /\ Count(store) = builder[b].entry_count
            /\ (builder[b].pc = "done" => builder[b].result = "returned")

C3_Witness ==
    \E b \in Builders :
        /\ builder[b].pc = "done"
        /\ ~builder[b].force_recreate
        /\ builder[b].entry_count > batch_size
        /\ builds >= 2

\* C4: a build that populates an empty collection from sources of equal
\* length N and returns normally leaves exactly N records with pairwise
\* distinct ids, record i carrying embeddings[i], metadata[i].content as its
\* document and metadata[i].source_file as its metadata.source.
C4_PopulateExactlyN ==
    \A b \in Builders :
        (builder[b].pc = "done" /\ builder[b].result = "returned"
            /\ builder[b].populated /\ SourcesMatch) =>
            LET N == Len(metadata_file.data)
                recs == store.records
            IN /\ Len(recs) = N
               /\ Cardinality({recs[i].id : i \in 1..Len(recs)}) = N
               /\ \A i \in 1..N :
                    /\ recs[i].embedding = embeddings_file.data[i]
                    /\ recs[i].document = metadata_file.data[i].content
                    /\ recs[i].metadata.source = metadata_file.data[i].source_file

C4_Witness ==
    \E b \in Builders :
        /\ builder[b].pc = "done" /\ builder[b].result = "returned"
        /\ builder[b].populated /\ SourcesMatch
        /\ Len(metadata_file.data) > 2 * batch_size
        /\ builder[b].adds = 3

\* C5 (as claimed): whenever no build is running, the collection holds
\* either no record or all N source records.
C5_EmptyOrFull ==
    (NoBuildRunning /\ SourcesMatch) =>
        Count(store) \in {0, Len(metadata_file.data)}

(***************************************************************************)
(* Properties of the answering path (chatbot.py), of construction          *)
(* (chatbot.py, text_cleaner.py) and of queries, checked under SpecChat.   *)
(***************************************************************************)
LLMOps == {"generate_content", "chat.completions.create"}

ProviderCalls(a) == {j \in 1..Len(a.calls) : a.calls[j] \in LLMOps}

\* C6: an ask whose Retrieving stage succeeded returns a string for each of
\* the three providers: the stripped text when the provider answers, and
\* when the provider call or the reading of its response raises, an error
\* message naming the provider and the cause; nothing is raised from the
\* Generating stage.
C6_GenerateAlwaysReturnsString ==
    /\ ask.raised_in # "Generating"
    /\ (ask.pc = "end" /\ ask.fault = "none") =>
        /\ component.provider \in {"google", "openrouter", "ollama"}
        /\ ask.stage = "done"
        /\ ask.returned = "string"
        /\ ask.outcome = "ok" => ask.answer.kind = "text"
        /\ ask.outcome # "ok" =>
            /\ ask.answer.kind = "error_message"
            /\ ask.answer.provider = Upper(component.provider)
            /\ ask.answer.cause = ExceptionOf(ask.outcome, component.provider)
            /\ ask.answer.cause # "none"

C6_Witness ==
    /\ ask.pc = "end"
    /\ ask.fault = "none"
    /\ ask.outcome = "read_raises"
    /\ component.provider = "ollama"
    /\ ask.returned = "string"
    /\ ask.answer.cause = "AttributeError"

\* C7: when the query embedding or the index query of an ask raises, the
\* ask ends by raising from the Retrieving stage: no answer is returned and
\* no provider call is made for that ask.
C7_RetrieveFailurePropagates ==
    ask.fault # "none" =>
        /\ ask.stage = "raised"
        /\ ask.raised_in = "Retrieving"
        /\ ask.pc = "end"
        /\ ask.returned = "none"
        /\ ask.answer = NoAnswer
        /\ ask.request = << >>
        /\ ProviderCalls(ask) = {}

C7_Witness ==
    /\ ask.fault = "query"
    /\ ask.stage = "raised"
    /\ ask.calls = <<"embedding_model.encode", "collection.query">>
    /\ asks = MaxAsks

CredentialErrors == {"ValueError:GOOGLE_API_KEY", "ValueError:OPENROUTER_API_KEY"}

CredentialMissing ==
    \/ component.provider = "google" /\ Falsy(env.GOOGLE_API_KEY)
    \/ component.provider = "openrouter" /\ Falsy(env.OPENROUTER_API_KEY)

\* C8 (as claimed): a Chatbot or TextCleaner constructed for google or
\* openrouter without that provider's credential fails with the credential's
\* configuration error before any external operation was attempted, and a
\* construction for ollama never fails for a credential.
C8_CredentialCheckedFirst == 
    component.kind \in {"Chatbot", "TextCleaner"} =>
        /\ CredentialMissing =>
            /\ component.state = "failed"
            /\ component.error \in CredentialErrors
            /\ trace = << >>
        /\ component.provider = "ollama" => component.error \notin CredentialErrors

\* C9: a query for k > 0 results against a collection of n >= 0 records
\* yields exactly min(k, n) documents, none for an empty collection and all
\* of them for k > n, and no error comes from the sizes: the retrieval of an
\* ask and perform_query raise only when the embedding or the store fails.
C9_QueryReturnsMinKN ==
    /\ ask.stage \in {"Generating", "done"} =>
        /\ ask.k_results > 0
        /\ Len(ask.retrieved_docs) = Min(ask.k_results, Count(store))
    /\ ask.stage = "raised" => ask.fault \in {"encode", "query"}
    /\ pq.result = "returned" =>
        /\ pq.n_results > 0
        /\ Len(pq.printed) = Min(pq.n_results, Count(store))
        /\ pq.none_found <=> Count(store) = 0
    /\ pq.result = "raised" => pq.fault \in {"encode", "query"}
    /\ pq.result \in {"none", "returned", "raised"}

C9_Witness ==
    /\ Count(store) = 0
    /\ ask.stage = "done"
    /\ ask.k_results = MaxK
    /\ ask.retrieved_docs = << >>
    /\ ask.returned = "string"

(***************************************************************************)
(* Properties of chunk_folder (doc_chunker.py), checked under SpecChunk.   *)
(***************************************************************************)
\* The records of all_chunks that name the given source file, in order.
ChunksOf(name) ==
    LET FromFile(c) == c.source_file = name IN SelectSeq(chunker.all_chunks, FromFile)

\* C10: the records chunk_folder emits for one source file carry the
\* chunk_sequence_ids 1, 2, ..., n in document order, the numbering starting
\* again at 1 for every file; a file without text contributes no record; and
\* chunk_folder returns without an error.
C10_SequenceIdsContiguousPerFile ==
    /\ \A j \in 1..Len(chunker.txt_files) :
        LET f == chunker.txt_files[j]
            sub == ChunksOf(f.name)
            chunks == split_text(f.text, chunker.chunk_size, chunker.chunk_overlap)
        IN /\ \A p \in 1..Len(sub) :
                /\ sub[p].chunk_sequence_id = p
                /\ sub[p].content = chunks[p]
           /\ j < chunker.idx => Len(sub) = Len(chunks)
           /\ j >= chunker.idx => Len(sub) = 0
           /\ (j < chunker.idx /\ Len(f.text) = 0) => Len(sub) = 0
    /\ chunker.pc = "done" =>
        /\ chunker.result = "returned"
        /\ chunker.idx = Len(chunker.txt_files) + 1 \/ chunker.txt_files = << >>
        /\ \A p \in 1..Len(chunker.all_chunks) :
             \E j \in 1..Len(chunker.txt_files) :
                 chunker.all_chunks[p].source_file = chunker.txt_files[j].name

C10_Witness ==
    /\ chunker.pc = "done"
    /\ Len(chunker.txt_files) = MaxFiles
    /\ Len(chunker.txt_files[1].text) = MaxDocLen
    /\ Len(chunker.txt_files[2].text) = 0
    /\ Len(chunker.txt_files[3].text) = MaxDocLen
    /\ Len(ChunksOf(chunker.txt_files[1].name)) >= 2
    /\ Len(ChunksOf(chunker.txt_files[2].name)) = 0

\* C11: the context ask builds is one line "- <document>" per document the
\* index returned, in the order the index returned them (by distance, not by
\* chunk sequence), the lines joined by newlines; the prompt sent to the
\* provider is the template with this context in its context block, followed
\* by the query text as given.
C11_ContextInRelevanceOrder ==
    /\ ask.stage \in {"Generating", "done"} =>
        LET m == Len(ask.returned_order)
            c == ask.context_str
        IN /\ m = Min(ask.k_results, Count(store))
           /\ Len(c) = IF m = 0 THEN 0 ELSE 3 * m - 1
           /\ \A j \in 1..m :
                /\ c[3 * j - 2] = T("- ", 0)
                /\ c[3 * j - 1] = store.records[ask.returned_order[j]].document
                /\ j < m => c[3 * j] = T("newline", 0)
    /\ ask.request # << >> =>
        LET req == ask.request[1]
            sent == req.messages[Len(req.messages)].content
            n == Len(ask.context_str)
        IN /\ Len(sent) = n + 4
           /\ SubSeq(sent, 2, n + 1) = ask.context_str
           /\ sent[n + 3] = ask.query_text
           /\ sent = ask.prompt

C11_Witness ==
    /\ ask.stage = "done"
    /\ ask.request # << >>
    /\ ask.returned_order = <<2, 1>>
    /\ Len(ask.context_str) = 5

\* C12: the add calls of one population carry at most batch_size records
\* each; the j-th call carries the records from offset (j-1)*batch_size on,
\* so the calls are consecutive, disjoint and in source order, and a
\* population that returns has covered every index once.  When a call fails
\* it is the last one made, and the records of the calls before it stay in
\* the collection.
C12_BatchesConsecutive ==
    \A b \in Builders :
        LET bd == builder[b]
            L == bd.batches
            N == Len(bd.ids_to_add)
            committed == IF L # << >> /\ ~L[Len(L)].ok
                         THEN (Len(L) - 1) * batch_size
                         ELSE Min(Len(L) * batch_size, N)
        IN /\ \A j \in 1..Len(L) :
                /\ L[j].start = (j - 1) * batch_size
                /\ L[j].start < N
                /\ L[j].n = Min(batch_size, N - L[j].start)
                /\ L[j].n <= batch_size
                /\ j < Len(L) => L[j].ok
           /\ L # << >> /\ ~L[Len(L)].ok =>
                bd.pc = "done" /\ bd.result = "raised"
           /\ bd.pc = "done" /\ bd.result = "returned" /\ bd.populated =>
                /\ \A j \in 1..Len(L) : L[j].ok
                /\ Len(L) * batch_size >= N
           /\ bd.populated /\ bd.pc \in {"adding", "done"} =>
                /\ Count(store) = committed
                /\ \A j \in 1..committed : store.records[j].id = bd.ids_to_add[j]

C12_Witness ==
    \E b \in Builders :
        /\ builder[b].pc = "done"
        /\ builder[b].result = "raised"
        /\ Len(builder[b].batches) = 2
        /\ Len(builder[b].ids_to_add) = MaxLen
        /\ Count(store) = batch_size

\* A collection left partly populated: the sources have N entries each, the
\* collection holds more than none and fewer than N, and no build is loading
\* or adding.
PartialAfterCrash ==
    /\ SourcesMatch
    /\ 0 < Count(store) /\ Count(store) < Len(metadata_file.data)
    /\ \A b \in Builders : builder[b].pc \notin {"load", "adding"}

\* C13: once a build has failed after committing some but not all batches,
\* the collection stays as it is under every step of later builds, except the
\* delete of a build with force_recreate = True; a build that reaches the
\* count check in this situation sees a count above zero, skips population
\* and returns.
C13_PartialPersistsUntilForce ==
    [][PartialAfterCrash =>
        /\ \/ store' = store
           \/ \E b \in Builders :
                /\ builder[b].pc = "delete" /\ builder[b].force_recreate
                /\ builder'[b].pc = "open"
        /\ \A b \in Builders :
            (builder[b].pc = "count" /\ builder'[b].pc # "count") =>
                /\ builder'[b].pc = "done"
                /\ builder'[b].result = "returned"
                /\ builder'[b].start_count > 0
                /\ ~builder'[b].populated]_vars

C13_Witness ==
    \E b \in Builders :
        /\ PartialAfterCrash
        /\ builder[b].pc = "done" /\ builder[b].result = "returned"
        /\ ~builder[b].force_recreate
        /\ ~builder[b].populated
        /\ builder[b].start_count = batch_size
        /\ Len(metadata_file.data) = MaxLen
        /\ builds >= 2

\* C14: in a build with force_recreate = True, a collection that exists on
\* entry (empty, partial or full) is deleted before the collection is opened,
\* so the build works on a new, empty collection; every record in it carries
\* an id drawn by this build, and when the build returns normally the
\* collection holds exactly this build's records (all N of them when the
\* sources have N entries each), none from an earlier build.
C14_ForceRecreateReplaces ==
    \A b \in Builders :
        LET bd == builder[b] IN
        (bd.force_recreate /\ bd.pc # "idle") =>
            /\ bd.pc = "open" => ~store.exists
            /\ bd.pc \in {"count", "load", "adding", "done"} =>
                /\ store.exists /\ store.gen = bd.handle
                /\ bd.entry_exists => bd.handle > bd.entry_gen
                /\ \A j \in 1..Count(store) :
                    /\ store.records[j].id = bd.ids_to_add[j]
                    /\ store.records[j].id[2] > bd.entry_uuid
            /\ bd.pc \in {"load", "adding", "done"} =>
                bd.start_count = 0 /\ bd.populated
            /\ bd.pc = "done" /\ bd.result = "returned" =>
                /\ Count(store) = Len(bd.ids_to_add)
                /\ SourcesMatch => Count(store) = Len(metadata_file.data)

C14_Witness ==
    \E b \in Builders :
        /\ builder[b].force_recreate
        /\ builder[b].pc = "done" /\ builder[b].result = "returned"
        /\ builder[b].entry_count = batch_size
        /\ builder[b].entry_uuid >= MaxLen
        /\ Count(store) = MaxLen

AskStageSteps ==
    {<<"idle", "Retrieving">>, <<"Retrieving", "Generating">>,
     <<"Retrieving", "raised">>, <<"Generating", "done">>,
     <<"Generating", "raised">>, <<"done", "Retrieving">>,
     <<"raised", "Retrieving">>}

\* C15: an ask goes through Retrieving, then Generating, then done, in this
\* order and without a retry: the query is embedded once, the index is
\* queried once and after the embedding, and the provider is called at most
\* once, after the index query has returned; a stage is left only forwards
\* (or by the failure of the ask).
C15_StagesInOrderNoRetry ==
    /\ [](LET c == ask.calls
              e == "embedding_model.encode"
              q == "collection.query"
          IN /\ ask.stage = "idle" => c = << >>
             /\ ask.stage = "Retrieving" => c \in {<< >>, <<e>>}
             /\ ask.stage = "Generating" => c = <<e, q>>
             /\ ask.stage = "done" =>
                    /\ Len(c) = 3 /\ SubSeq(c, 1, 2) = <<e, q>>
                    /\ c[3] \in LLMOps
                    /\ Len(ask.request) = 1
             /\ ask.stage = "raised" => c \in {<<e>>, <<e, q>>}
             /\ Cardinality(ProviderCalls(ask)) <= 1)
    /\ [][ask'.stage # ask.stage =>
            <<ask.stage, ask'.stage>> \in AskStageSteps]_vars

C15_Witness ==
    /\ ask.stage = "done"
    /\ ask.outcome = "call_raises"
    /\ ask.calls = <<"embedding_model.encode", "collection.query",
                     "chat.completions.create">>
    /\ asks = MaxAsks

\* The ids a builder has committed through its handle so far.
CommittedIds(b) ==
    LET bd == builder[b]
        m == Min(bd.adds * batch_size, Len(bd.ids_to_add))
    IN {bd.ids_to_add[j] : j \in 1..m}

\* The builders whose handle is the collection that exists now.
CurrentWriters ==
    {b \in Racers : /\ builder[b].pc \in {"adding", "done"}
                    /\ store.exists /\ builder[b].handle = store.gen}

\* C16: two builds running against one name are not kept apart.  Each can
\* start while the other runs; the collection holds exactly what the builders
\* working on the present collection have added, each under ids of its own,
\* and nothing of a builder whose collection was deleted under it.  So when
\* both pass the count check on the empty collection, both populate, and when
\* both return the collection holds 2N records under 2N distinct ids.
C16_InterleavedBuildsBothPopulate ==
    LET ids == {store.records[j].id : j \in 1..Count(store)} IN
    /\ \A b \in Racers :
        (builder[b].pc = "idle" /\ builds < MaxBuilds) =>
            ENABLED setup_collection_concurrent(b, TRUE)
    /\ ids = UNION {CommittedIds(b) : b \in CurrentWriters}
    /\ Cardinality(ids) = Count(store)
    /\ \A b1, b2 \in Racers :
        (/\ b1 # b2
         /\ builder[b1].pc = "done" /\ builder[b1].result = "returned"
         /\ builder[b2].pc = "done" /\ builder[b2].result = "returned"
         /\ builder[b1].populated /\ builder[b2].populated
         /\ builder[b1].handle = builder[b2].handle) =>
            Count(store) = 2 * Len(metadata_file.data)

C16_Witness ==
    /\ \A b \in Racers :
        /\ builder[b].pc = "done" /\ builder[b].result = "returned"
        /\ builder[b].start_count = 0 /\ builder[b].adds = 2
    /\ Len(metadata_file.data) = batch_size + 1
    /\ Count(store) = 2 * (batch_size + 1)

\* Reached as well: a builder that had added a batch finds its collection
\* deleted by the other run and its records gone.
C16_DeletedUnderBuilder ==
    \E b \in Racers :
        /\ builder[b].adds >= 1
        /\ builder[b].result = "raised" /\ builder[b].error = "StoreError"
        /\ builder[b].handle # store.gen
        /\ CommittedIds(b) \cap {store.records[j].id : j \in 1..Count(store)} = {}

(***************************************************************************)
(* Properties of the provider calls (chatbot.py, text_cleaner.py).         *)
(***************************************************************************)
\* What the claim of C17 asks of one request: the configured temperature,
\* and the system instruction and the user prompt, as two messages for
\* openrouter and ollama and joined into the one prompt for google.
DeliversAll(req, system, prompt) ==
    /\ req.temperature = component.temperature
    /\ IF component.provider = "google"
       THEN /\ Len(req.messages) = 1
            /\ req.messages[1].content = <<system>> \o prompt
       ELSE req.messages = <<[role |-> "system", content |-> <<system>>],
                             [role |-> "user", content |-> prompt]>>

\* C17 (as claimed): every generate call, of the chatbot and of the cleaner
\* and for each of the three providers, hands the backend the system
\* instruction, the filled user prompt and the configured temperature.
C17_ProviderUniformity ==
    /\ ask.request # << >> =>
        DeliversAll(ask.request[1], SystemInstruction, ask.prompt)
    /\ cleaning.request # << >> =>
        DeliversAll(cleaning.request[1], CleanerSystemInstruction,
                    CleaningPrompt(input_file.data))

\* C18: clean_file writes the output only with the stripped, non-empty text
\* the provider returned, and then returns True.  When the input file is
\* missing, when the provider call or the reading of its answer raises, or
\* when the cleaned text is empty, it returns False and the output file is
\* as it was before the call: not created, not changed.  No step changes the
\* output file except a clean_file call that returns True.
C18_ErrorNeverPersisted ==
    /\ [](/\ cleaning.result = "False" =>
                /\ ~cleaning.wrote
                /\ output_file = cleaning.output_before
          /\ cleaning.result = "True" =>
                /\ cleaning.input_found /\ cleaning.wrote
                /\ cleaning.outcome = "ok"
                /\ cleaning.cleaned.text = Strip(cleaning.provider_text)
                /\ cleaning.cleaned.text # << >>
                /\ output_file = File(cleaning.cleaned.text)
          /\ (/\ cleaning.result # "none"
              /\ \/ ~cleaning.input_found
                 \/ cleaning.outcome # "ok"
                 \/ Strip(cleaning.provider_text) = << >>) =>
                cleaning.result = "False")
    /\ [][output_file' # output_file =>
            /\ cleans' = cleans + 1
            /\ cleaning'.result = "True"
            /\ cleaning'.outcome = "ok"]_vars

C18_Witness ==
    /\ cleaning.result = "False"
    /\ cleaning.outcome = "call_raises"
    /\ cleaning.request # << >>
    /\ output_file \in {File(t) : t \in ProviderTexts}
    /\ cleans = MaxCleans

====
